---- MODULE Spec2Model ----
(***************************************************************************)
(* Behavior tree of src/utils/behavior/mod.rs: the node arena, the tree    *)
(* construction API (new, add_node, set_entry_node, node, node_mut) and    *)
(* the recursive tick, together with the door scenario of the module's     *)
(* tests; and the undo/redo CommandStack of src/command.rs.                *)
(***************************************************************************)
EXTENDS Integers, Sequences, FiniteSets, TLC

VARIABLES nodes, root, ctx, last, issued, commands, top, journal

\* The fields of a CommandStack and the journal of the calls made on it.
stack_vars == <<commands, top, journal>>

\* The fields of a BehaviorTree, the context of its ticks and the record of
\* the calls made on it.
tree_vars == <<nodes, root, ctx, last, issued>>

vars == <<tree_vars, stack_vars>>

\* ------------------------------------------------------------------ bounds

\* Number of add_node calls a run of an editing driver makes.
MaxNodes == 3

\* Longest child list of the composites ticked on their own.
MaxChildren == 3

\* Number of add_node calls a run of the rewiring driver makes.
MaxGraphNodes == 2

\* Number of calls a run of the editing driver makes on a CommandStack.
MaxCalls == 6

\* ------------------------------------------------------------ f32 contexts
\* Environment.distance_to_door is an f32. Every value the scenario reaches is
\* a multiple of 2^-27 (0.1f32 = 13421773 * 2^-27), so a distance d is held as
\* the integer d * 2^27 and every subtraction is rounded as IEEE-754 binary32
\* rounds it (24 significant bits, ties to even).

\* 0.1f32 * 2^27
Tenth == 13421773

\* 1.0f32 * 2^27
One == 134217728

\* 2^24: integers below it are exact in 24 bits
Exact24 == 16777216

RECURSIVE Ulp(_, _)
Ulp(m, q) == IF m < Exact24 * q THEN q ELSE Ulp(m, 2 * q)

Abs(n) == IF n < 0 THEN 0 - n ELSE n

RoundF32(n) ==
    LET m == Abs(n)
        q == Ulp(m, 1)
        r == m % q
        down == m - r
        up == down + q
        near == IF 2 * r < q THEN down
                ELSE IF 2 * r > q THEN up
                ELSE IF (down \div q) % 2 = 0 THEN down ELSE up
    IN IF n < 0 THEN 0 - near ELSE near

SubF32(a, b) == RoundF32(a - b)

\* ------------------------------------------------------------------ status

Success == "Success"
Failure == "Failure"
Running == "Running"
\* No Status at all: the call panicked (unreachable!, unwrap on None, an
\* invalid handle indexed, or the recursion never returning).
Panic == "Panic"

Status == {Success, Failure, Running}

\* ------------------------------------------------------------- pool, handle

NONE == [index |-> 0, generation |-> 0]

Handle(i, g) == [index |-> i, generation |-> g]

is_some(h) == ~(h.index = 0 /\ h.generation = 0)

is_valid_handle(pool, h) ==
    /\ h.index < Len(pool)
    /\ pool[h.index + 1].generation = h.generation

Pool_new == <<>>

\* No slot of the tree's pool is ever freed, so spawn always appends a slot
\* of generation 1.
Pool_spawn(pool, payload) ==
    [pool |-> Append(pool, [generation |-> 1, payload |-> payload]),
     handle |-> Handle(Len(pool), 1)]

\* ------------------------------------------------------------------- nodes

NoBehavior == [name |-> "None", ret |-> Success]

Node(tag, child, kind, children, behavior) ==
    [tag |-> tag, child |-> child, kind |-> kind, children |-> children,
     behavior |-> behavior]

Unknown == Node("Unknown", NONE, "", <<>>, NoBehavior)

RootNode(child) == Node("Root", child, "", <<>>, NoBehavior)

CompositeNode(kind, children) == Node("Composite", NONE, kind, children, NoBehavior)

LeafNode(behavior) == Node("Leaf", NONE, "", <<>>, behavior)

None == [some |-> FALSE, value |-> Unknown]

Some(n) == [some |-> TRUE, value |-> n]

Pool_try_borrow(pool, h) ==
    IF is_valid_handle(pool, h) THEN Some(pool[h.index + 1].payload) ELSE None

\* ---------------------------------------------------------------- context
\* The context of a tick: the test's Environment, and the record a probe
\* leaf keeps of its invocations.

Environment(distance, opened, done) ==
    [distance_to_door |-> distance, door_opened |-> opened, done |-> done,
     log |-> <<>>]

\* --------------------------------------------------------------- behaviors
\* A leaf payload's tick returns a status and the context as it leaves it.

Ticked(status, context) == [status |-> status, ctx |-> context]

WalkAction_tick(context) ==
    IF context.distance_to_door <= 0
    THEN Ticked(Success, context)
    ELSE Ticked(Running,
                [context EXCEPT !.distance_to_door = SubF32(@, Tenth)])

\* An OpenDoor that reports Success and leaves the door as it found it.
OpenDoorAction_tick_stuck(context) == Ticked(Success, context)

OpenDoorAction_tick(context) ==
    IF ~context.door_opened
    THEN Ticked(Success, [context EXCEPT !.door_opened = TRUE])
    ELSE Ticked(Success, context)

StepThroughAction_tick(context) ==
    IF context.distance_to_door < 0 - One
    THEN Ticked(Success, context)
    ELSE Ticked(Running,
                [context EXCEPT !.distance_to_door = SubF32(@, Tenth)])

\* A CloseDoor that closes the door and forgets to report the bot done.
CloseDoorAction_tick_not_done(context) ==
    IF context.door_opened
    THEN Ticked(Success, [context EXCEPT !.door_opened = FALSE])
    ELSE Ticked(Success, context)

CloseDoorAction_tick(context) ==
    IF context.door_opened
    THEN Ticked(Success, [context EXCEPT !.door_opened = FALSE, !.done = TRUE])
    ELSE Ticked(Success, context)

BotBehavior_tick(b, context) ==
    CASE b.name = "Walk" -> WalkAction_tick(context)
      [] b.name = "OpenDoor" -> OpenDoorAction_tick(context)
      [] b.name = "StepThrough" -> StepThroughAction_tick(context)
      [] b.name = "CloseDoor" -> CloseDoorAction_tick(context)
      [] OTHER -> Ticked(Panic, context)

\* A side-effecting test leaf: it returns the status it was built with and
\* records the invocation in the context.
Probe_tick(b, context) ==
    Ticked(b.ret, [context EXCEPT !.log = Append(@, b.ret)])

Behavior_tick(b, context) ==
    IF b.name = "Probe" THEN Probe_tick(b, context)
    ELSE BotBehavior_tick(b, context)

Walk == [name |-> "Walk", ret |-> Success]
OpenDoor == [name |-> "OpenDoor", ret |-> Success]
StepThrough == [name |-> "StepThrough", ret |-> Success]
CloseDoor == [name |-> "CloseDoor", ret |-> Success]
Probe(s) == [name |-> "Probe", ret |-> s]

\* -------------------------------------------------------------------- tick
\* An evaluation returns its status, the context as it leaves it, and the
\* calls of tick_recursive that have returned so far, each with the handle
\* it was given, its depth in the recursion and the status it returned.

Returned(handle, depth, status, context, calls) ==
    [status |-> status, ctx |-> context,
     calls |-> Append(calls, [node |-> handle, depth |-> depth,
                              status |-> status])]

\* `let r = v; body(r)`: v is evaluated once and body sees its value.
Let(v, body(_)) == CHOOSE y \in {body(x) : x \in {v}} : TRUE

RECURSIVE tick_recursive(_, _, _, _)
RECURSIVE Sequence_children(_, _, _, _, _)
RECURSIVE Selector_children(_, _, _, _, _)

\* A Sequence whose loop lacks the Running arm: it goes on to the next child.
Sequence_children_past_running(children, i, context, calls, depth) ==
    IF i > Len(children)
    THEN [status |-> Success, ctx |-> context, calls |-> calls]
    ELSE Let(tick_recursive(children[i], context, calls, depth), LAMBDA r :
            CASE r.status = Failure -> r
              [] r.status = Panic -> r
              [] OTHER -> Sequence_children(children, i + 1, r.ctx, r.calls, depth))

\* The loop of a Sequence from its i-th child on.
Sequence_children(children, i, context, calls, depth) ==
    IF i > Len(children)
    THEN [status |-> Success, ctx |-> context, calls |-> calls]
    ELSE Let(tick_recursive(children[i], context, calls, depth), LAMBDA r :
            CASE r.status = Failure -> r
              [] r.status = Running -> r
              [] r.status = Panic -> r
              [] OTHER -> Sequence_children(children, i + 1, r.ctx, r.calls, depth))

\* A Selector that ticks every child and reports the last one that did not
\* fail, instead of returning at the first.
Selector_children_last_wins(children, i, context, calls, depth) ==
    IF i > Len(children)
    THEN [status |-> Failure, ctx |-> context, calls |-> calls]
    ELSE Let(tick_recursive(children[i], context, calls, depth), LAMBDA r :
            IF r.status = Panic THEN r
            ELSE Let(Selector_children(children, i + 1, r.ctx, r.calls, depth),
                     LAMBDA rest :
                        IF r.status # Failure /\ rest.status = Failure
                        THEN [rest EXCEPT !.status = r.status] ELSE rest))

\* A Selector that takes an empty child list for a success.
Selector_children_vacuous_success(children, i, context, calls, depth) ==
    IF Len(children) = 0
    THEN [status |-> Success, ctx |-> context, calls |-> calls]
    ELSE IF i > Len(children)
    THEN [status |-> Failure, ctx |-> context, calls |-> calls]
    ELSE Let(tick_recursive(children[i], context, calls, depth), LAMBDA r :
            CASE r.status = Success -> r
              [] r.status = Running -> r
              [] r.status = Panic -> r
              [] OTHER -> Selector_children(children, i + 1, r.ctx, r.calls, depth))

\* The loop of a Selector from its i-th child on.
Selector_children(children, i, context, calls, depth) ==
    IF i > Len(children)
    THEN [status |-> Failure, ctx |-> context, calls |-> calls]
    ELSE Let(tick_recursive(children[i], context, calls, depth), LAMBDA r :
            CASE r.status = Success -> r
              [] r.status = Running -> r
              [] r.status = Panic -> r
              [] OTHER -> Selector_children(children, i + 1, r.ctx, r.calls, depth))

\* A composite that takes a null handle in its child list for "no child" and
\* passes over it.
Composite_tick_skips_null(composite, context, calls, depth) ==
    LET children == SelectSeq(composite.children, is_some)
    IN IF composite.kind = "Sequence"
       THEN Sequence_children(children, 1, context, calls, depth)
       ELSE Selector_children(children, 1, context, calls, depth)

Composite_tick(composite, context, calls, depth) ==
    IF composite.kind = "Sequence"
    THEN Sequence_children(composite.children, 1, context, calls, depth)
    ELSE Selector_children(composite.children, 1, context, calls, depth)

\* A Root that recurses into its child without asking whether it is null.
Root_tick_unchecked(rootnode, context, calls, depth) ==
    tick_recursive(rootnode.child, context, calls, depth)

Root_tick(rootnode, context, calls, depth) ==
    IF is_some(rootnode.child)
    THEN tick_recursive(rootnode.child, context, calls, depth)
    ELSE [status |-> Success, ctx |-> context, calls |-> calls]

\* A leaf that holds no behavior: `leaf.behavior.as_ref().unwrap()` panics.
Leaf_tick_no_behavior(leaf, context, calls) ==
    [status |-> Panic, ctx |-> context, calls |-> calls]

Leaf_tick(leaf, context, calls) ==
    Let(Behavior_tick(leaf.behavior, context), LAMBDA r :
        [status |-> r.status, ctx |-> r.ctx, calls |-> calls])

\* self.nodes[handle] panics on a handle that names no slot. A call chain
\* deeper than the arena has slots passes through some node twice; no
\* payload modelled here changes the status it returns within one tick once
\* it has let the walk continue, so such a chain never returns and the call
\* ends when the stack is exhausted.
tick_recursive(handle, context, calls, depth) ==
    IF depth > Len(nodes) \/ ~is_valid_handle(nodes, handle)
    THEN Returned(handle, depth, Panic, context, calls)
    ELSE LET n == nodes[handle.index + 1].payload
         IN Let(CASE n.tag = "Root" -> Root_tick(n, context, calls, depth + 1)
                  [] n.tag = "Composite" -> Composite_tick(n, context, calls, depth + 1)
                  [] n.tag = "Leaf" -> Leaf_tick(n, context, calls)
                  [] OTHER -> [status |-> Panic, ctx |-> context, calls |-> calls],
                LAMBDA r : Returned(handle, depth, r.status, r.ctx, r.calls))

\* A tree that latches: once a tick has returned Success or Failure it
\* reports that status again without walking the tree.
tick_latched(context) ==
    IF last.op = "tick" /\ last.status \in {Success, Failure}
    THEN [status |-> last.status, ctx |-> context, calls |-> <<>>]
    ELSE tick_recursive(root, context, <<>>, 0)

tick(context) == tick_recursive(root, context, <<>>, 0)

\* ------------------------------------------------------- construction API
\* A tree is the pair of its pool and its root handle.

Tree(pool, r) == [nodes |-> pool, root |-> r]

new ==
    LET s == Pool_spawn(Pool_new, RootNode(NONE))
    IN Tree(s.pool, s.handle)

\* An add_node that numbers the slots from one: the handle it returns names
\* the slot after the one it filled.
add_node_one_based(tree, n) ==
    LET s == Pool_spawn(tree.nodes, n)
    IN [tree |-> Tree(s.pool, tree.root),
        handle |-> Handle(s.handle.index + 1, s.handle.generation)]

add_node(tree, n) ==
    LET s == Pool_spawn(tree.nodes, n)
    IN [tree |-> Tree(s.pool, tree.root), handle |-> s.handle]

\* A set_entry_node that keeps the entry node it finds: the first one wins.
set_entry_node_once(tree, entry) ==
    IF /\ is_valid_handle(tree.nodes, tree.root)
       /\ tree.nodes[tree.root.index + 1].payload.tag = "Root"
    THEN [panicked |-> FALSE,
          tree |-> IF is_some(tree.nodes[tree.root.index + 1].payload.child)
                   THEN tree
                   ELSE Tree([tree.nodes EXCEPT ![tree.root.index + 1].payload.child = entry],
                             tree.root)]
    ELSE [panicked |-> TRUE, tree |-> tree]

\* A set_entry_node that makes the root slot a Root again when it finds
\* another variant there.
set_entry_node_forced(tree, entry) ==
    IF is_valid_handle(tree.nodes, tree.root)
    THEN [panicked |-> FALSE,
          tree |-> Tree([tree.nodes EXCEPT ![tree.root.index + 1].payload = RootNode(entry)],
                        tree.root)]
    ELSE [panicked |-> TRUE, tree |-> tree]

\* self.nodes[self.root] panics on a root handle that names no slot, and the
\* else branch is unreachable!("must be root").
set_entry_node(tree, entry) ==
    IF /\ is_valid_handle(tree.nodes, tree.root)
       /\ tree.nodes[tree.root.index + 1].payload.tag = "Root"
    THEN [panicked |-> FALSE,
          tree |-> Tree([tree.nodes EXCEPT ![tree.root.index + 1].payload.child = entry],
                        tree.root)]
    ELSE [panicked |-> TRUE, tree |-> tree]

node(tree, h) == Pool_try_borrow(tree.nodes, h)

\* A node_mut that looks the slot up by index alone.
node_mut_unversioned(tree, h) ==
    IF h.index < Len(tree.nodes) THEN Some(tree.nodes[h.index + 1].payload) ELSE None

node_mut(tree, h) == Pool_try_borrow(tree.nodes, h)

\* `if let Some(n) = tree.node_mut(h) { *n = value }`
node_mut_assign(tree, h, value) ==
    IF node_mut(tree, h).some
    THEN Tree([tree.nodes EXCEPT ![h.index + 1].payload = value], tree.root)
    ELSE tree

\* The tree the tests assemble: the leaves in order, then the composite over
\* them, then the composite as the entry node.
RECURSIVE add_leaves(_, _, _, _)
add_leaves(tree, behaviors, i, handles) ==
    IF i > Len(behaviors)
    THEN [tree |-> tree, handles |-> handles]
    ELSE LET r == add_node(tree, LeafNode(behaviors[i]))
         IN add_leaves(r.tree, behaviors, i + 1, Append(handles, r.handle))

create_flat_tree(kind, behaviors) ==
    LET leaves == add_leaves(new, behaviors, 1, <<>>)
        entry == add_node(leaves.tree, CompositeNode(kind, leaves.handles))
    IN set_entry_node(entry.tree, entry.handle).tree

\* The same with handles that name no node in the child list: a pick is a
\* leaf to add, or a handle to list as it is.
LeafPick(status) == [leaf |-> TRUE, ret |-> status, handle |-> NONE]

HandlePick(h) == [leaf |-> FALSE, ret |-> Success, handle |-> h]

RECURSIVE add_picks(_, _, _, _)
add_picks(tree, picks, i, handles) ==
    IF i > Len(picks)
    THEN [tree |-> tree, handles |-> handles]
    ELSE IF picks[i].leaf
    THEN LET r == add_node(tree, LeafNode(Probe(picks[i].ret)))
         IN add_picks(r.tree, picks, i + 1, Append(handles, r.handle))
    ELSE add_picks(tree, picks, i + 1, Append(handles, picks[i].handle))

create_picked_tree(kind, picks) ==
    LET leaves == add_picks(new, picks, 1, <<>>)
        entry == add_node(leaves.tree, CompositeNode(kind, leaves.handles))
    IN set_entry_node(entry.tree, entry.handle).tree

create_tree == create_flat_tree("Sequence", <<Walk, OpenDoor, StepThrough, CloseDoor>>)

\* ------------------------------------------------------------ CommandStack
\* top is an Option<usize>.

NoTop == [some |-> FALSE, value |-> 0]

SomeTop(i) == [some |-> TRUE, value |-> i]

unwrap_or(t, d) == IF t.some THEN t.value ELSE d

\* A command is known by its identity. Its execute, revert and finalize
\* record the call in the context they are given.
Event(kind, command) == [event |-> kind, command |-> command]

Command_execute(command, context) == Append(context, Event("execute", command))

Command_revert(command, context) == Append(context, Event("revert", command))

Command_finalize(command, context) == Append(context, Event("finalize", command))

Stack(cmds, t) == [commands |-> cmds, top |-> t]

CommandStack_new == Stack(<<>>, NoTop)

\* What a call leaves behind: the stack and the context.
Done(stack, context) == [stack |-> stack, ctx |-> context]

\* `for dropped_command in drain { dropped_command.finalize(&mut context) }`
RECURSIVE finalize_each(_, _, _)
finalize_each(dropped, i, context) ==
    IF i > Len(dropped)
    THEN context
    ELSE finalize_each(dropped, i + 1, Command_finalize(dropped[i], context))

\* A do_command that pushes the new command and keeps the undone branch.
do_command_keeps_branch(stack, command, context) ==
    LET advanced == IF stack.commands = <<>> \/ ~stack.top.some
                    THEN SomeTop(0)
                    ELSE SomeTop(stack.top.value + 1)
    IN Done(Stack(Append(stack.commands, command), advanced),
            Command_execute(command, context))

\* commands[i] of the code is commands[i + 1] here.
do_command(stack, command, context) ==
    LET advanced == IF stack.commands = <<>> \/ ~stack.top.some
                    THEN SomeTop(0)
                    ELSE SomeTop(stack.top.value + 1)
        t == unwrap_or(advanced, 0)
        drains == stack.commands # <<>> /\ t < Len(stack.commands)
        kept == IF drains THEN SubSeq(stack.commands, 1, t) ELSE stack.commands
        dropped == IF drains
                   THEN SubSeq(stack.commands, t + 1, Len(stack.commands))
                   ELSE <<>>
    IN Done(Stack(Append(kept, command), advanced),
            Command_execute(command, finalize_each(dropped, 1, context)))

\* An undo whose cursor stays on the first command instead of leaving the
\* history.
undo_stops_at_first(stack, context) ==
    IF stack.commands # <<>> /\ stack.top.some
    THEN LET t == stack.top.value
         IN Done(Stack(stack.commands, IF t = 0 THEN SomeTop(0) ELSE SomeTop(t - 1)),
                 IF t < Len(stack.commands)
                 THEN Command_revert(stack.commands[t + 1], context)
                 ELSE context)
    ELSE Done(stack, context)

undo(stack, context) ==
    IF stack.commands # <<>> /\ stack.top.some
    THEN LET t == stack.top.value
         IN Done(Stack(stack.commands, IF t = 0 THEN NoTop ELSE SomeTop(t - 1)),
                 IF t < Len(stack.commands)
                 THEN Command_revert(stack.commands[t + 1], context)
                 ELSE context)
    ELSE Done(stack, context)

redo(stack, context) ==
    IF stack.commands = <<>>
    THEN Done(stack, context)
    ELSE IF ~stack.top.some
    THEN Done(Stack(stack.commands, SomeTop(1)),
              Command_execute(stack.commands[1], context))
    ELSE IF stack.top.value < Len(stack.commands)
    THEN Done(Stack(stack.commands, SomeTop(stack.top.value + 1)),
              Command_execute(stack.commands[stack.top.value + 1], context))
    ELSE Done(stack, context)

\* ------------------------------------------------------------- the drivers
\* last is the driver's record of the call it made last: the operation, the
\* handle it passed, what came back (a status, a handle, an optional node),
\* and for a tick the context it passed and the calls the tick made.
\* issued lists the handles add_node has returned, each with the node last
\* stored under it by the caller.

Op(op, arg, status, ret, found, before, calls) ==
    [op |-> op, arg |-> arg, status |-> status, ret |-> ret, found |-> found,
     before |-> before, calls |-> calls]

Env0 == Environment(0, FALSE, FALSE)

\* A panic ends the program.
Alive == last.status # Panic

Slots == 1..Len(nodes)

HandleOf(i) == Handle(i - 1, nodes[i].generation)

Handles == {HandleOf(i) : i \in Slots}

\* The handles a caller passes: null, those of the arena, one past its end,
\* and the root's index under another version tag.
HandleInputs == {NONE, Handle(Len(nodes), 1), Handle(0, 2)} \cup Handles

\* Slots that have no parent: not the root, not the root's child, in no
\* composite's child list.
IsChild(h) ==
    \E i \in Slots :
        \/ nodes[i].payload.child = h
        \/ \E k \in 1..Len(nodes[i].payload.children) :
               nodes[i].payload.children[k] = h

Orphans == {h \in Handles : h # root /\ ~IsChild(h)}

Injective(f) == \A a, b \in DOMAIN f : f[a] = f[b] => a = b

\* Child lists as the module documents them: every node has a single parent.
ChildLists ==
    {c \in UNION {[1..l -> Orphans] : l \in 0..Cardinality(Orphans)} : Injective(c)}

Kinds == {"Sequence", "Selector"}

\* The nodes the tree-building driver adds.
TreeNodeInputs ==
    {LeafNode(Probe(s)) : s \in Status}
    \cup {CompositeNode(k, c) : k \in Kinds, c \in ChildLists}

\* The nodes the arena driver adds and assigns: add_node takes any variant.
ArenaNodeInputs == {LeafNode(Probe(Success)), RootNode(NONE), Unknown}

\* The nodes the arena driver assigns through node_mut.
AssignInputs == {RootNode(NONE), Unknown}

IssuedOf(tree) ==
    [i \in 1..(Len(tree.nodes) - 1) |->
        [handle |-> Handle(i, tree.nodes[i + 1].generation),
         node |-> tree.nodes[i + 1].payload]]

\* A new CommandStack on which no call has been made.
NoCalls ==
    /\ commands = CommandStack_new.commands
    /\ top = CommandStack_new.top
    /\ journal = <<>>

Init ==
    /\ nodes = new.nodes
    /\ root = new.root
    /\ ctx = Env0
    /\ last = Op("new", NONE, "", new.root, None, Env0, <<>>)
    /\ issued = <<>>
    /\ NoCalls

AddNode(n) ==
    /\ Alive
    /\ Len(nodes) < 1 + MaxNodes
    /\ LET r == add_node(Tree(nodes, root), n)
       IN /\ nodes' = r.tree.nodes
          /\ root' = r.tree.root
          /\ last' = Op("add_node", NONE, "", r.handle, Some(n), Env0, <<>>)
          /\ issued' = Append(issued, [handle |-> r.handle, node |-> n])
    /\ UNCHANGED <<ctx, stack_vars>>

SetEntryNode(h) ==
    /\ Alive
    /\ LET r == set_entry_node(Tree(nodes, root), h)
       IN /\ nodes' = r.tree.nodes
          /\ root' = r.tree.root
          /\ last' = Op("set_entry_node", h, IF r.panicked THEN Panic ELSE "",
                        NONE, None, Env0, <<>>)
    /\ UNCHANGED <<ctx, issued, stack_vars>>

GetNode(h) ==
    /\ Alive
    /\ last' = Op("node", h, "", NONE, node(Tree(nodes, root), h), Env0, <<>>)
    /\ UNCHANGED <<nodes, root, ctx, issued, stack_vars>>

GetNodeMut(h) ==
    /\ Alive
    /\ last' = Op("node_mut", h, "", NONE, node_mut(Tree(nodes, root), h), Env0, <<>>)
    /\ UNCHANGED <<nodes, root, ctx, issued, stack_vars>>

AssignNode(h, n) ==
    /\ Alive
    /\ LET t == node_mut_assign(Tree(nodes, root), h, n)
       IN /\ nodes' = t.nodes
          /\ root' = t.root
          /\ last' = Op("node_mut_assign", h, "", NONE,
                        node_mut(Tree(nodes, root), h), Env0, <<>>)
          /\ issued' = [i \in DOMAIN issued |->
                           IF issued[i].handle = h /\ node_mut(Tree(nodes, root), h).some
                           THEN [issued[i] EXCEPT !.node = n] ELSE issued[i]]
    /\ UNCHANGED <<ctx, stack_vars>>

\* A tick that unhooks the entry node once the tree has finished.
Tick_one_shot(c) ==
    /\ last.status # Panic
    /\ \E r \in {tick(c)} :
          /\ ctx' = r.ctx
          /\ last' = [op |-> "tick", arg |-> NONE, status |-> r.status, ret |-> NONE,
                      found |-> None, before |-> c, calls |-> r.calls]
          /\ nodes' = IF r.status \in {Success, Failure}
                       THEN [nodes EXCEPT ![root.index + 1].payload.child = NONE]
                       ELSE nodes
    /\ UNCHANGED <<root, issued, stack_vars>>

Tick(c) ==
    /\ Alive
    /\ \E r \in {tick(c)} :
          /\ ctx' = r.ctx
          /\ last' = Op("tick", NONE, r.status, NONE, None, c, r.calls)
    /\ UNCHANGED <<nodes, root, issued, stack_vars>>

\* The tree-building driver: it assembles trees bottom-up, wires the entry
\* node, and ticks with a fresh context.
Next ==
    \/ \E n \in TreeNodeInputs : AddNode(n)
    \/ \E h \in Orphans \cup {NONE} : SetEntryNode(h)
    \/ Tick(Env0)

Spec == Init /\ [][Next]_vars

\* The arena driver: any variant added, any handle passed.
NextArena ==
    \/ \E n \in ArenaNodeInputs : AddNode(n)
    \/ \E h \in HandleInputs : SetEntryNode(h)
    \/ \E h \in HandleInputs : GetNode(h)
    \/ \E h \in HandleInputs : GetNodeMut(h)
    \/ \E h \in HandleInputs : \E n \in AssignInputs : AssignNode(h, n)
    \/ Tick(Env0)

SpecArena == Init /\ [][NextArena]_vars

\* A composite ticked on its own: a tree of one composite over probe leaves,
\* for every kind and every assignment of statuses to its children.
ChildStatuses == UNION {[1..n -> Status] : n \in 0..MaxChildren}

InitComposite ==
    \E k \in Kinds : \E st \in ChildStatuses :
        LET t == create_flat_tree(k, [i \in 1..Len(st) |-> Probe(st[i])])
        IN /\ nodes = t.nodes
           /\ root = t.root
           /\ ctx = Env0
           /\ last = Op("set_entry_node", t.nodes[t.root.index + 1].payload.child,
                        "", NONE, None, Env0, <<>>)
           /\ issued = IssuedOf(t)
           /\ NoCalls

NextComposite == Tick(Env0)

SpecComposite == InitComposite /\ [][NextComposite]_vars

\* The driver of test_behavior: `while !ctx.done { tree.tick(&mut ctx); }` on
\* the tree of create_tree. The test starts 3.0 away from the door; the other
\* starting distances are further runs of the same loop.
Three == 3 * One

StartDistances == {One, 2 * One, Three, 4 * One}

InitDoor ==
    \E d \in StartDistances :
        /\ nodes = create_tree.nodes
        /\ root = create_tree.root
        /\ ctx = Environment(d, FALSE, FALSE)
        /\ last = Op("set_entry_node",
                     create_tree.nodes[create_tree.root.index + 1].payload.child,
                     "", NONE, None, Environment(d, FALSE, FALSE), <<>>)
        /\ issued = IssuedOf(create_tree)
        /\ NoCalls

DriverTick ==
    /\ ~ctx.done
    /\ Tick(ctx)

SpecDoor == InitDoor /\ [][DriverTick]_vars /\ WF_vars(DriverTick)

\* The rewiring driver: its composites list any node but the Root, in any
\* order of adding: the nodes added before, the node being added (the handle
\* add_node is about to return) and the node added next. A caller reaches
\* the same trees by adding the composite first and writing its child list
\* through node_mut afterwards.
GraphHandles ==
    (Handles \ {root}) \cup {Handle(Len(nodes), 1), Handle(Len(nodes) + 1, 1)}

GraphChildLists ==
    {<<>>} \cup {<<a>> : a \in GraphHandles}
    \cup {c \in {<<a, b>> : a, b \in GraphHandles} : c[1] # c[2]}

GraphNodeInputs ==
    {LeafNode(Probe(s)) : s \in {Success, Failure}}
    \cup {CompositeNode(k, c) : k \in Kinds, c \in GraphChildLists}

AddGraphNode(n) ==
    /\ Len(nodes) < 1 + MaxGraphNodes
    /\ AddNode(n)

NextGraph ==
    \/ \E n \in GraphNodeInputs : AddGraphNode(n)
    \/ \E h \in (Handles \ {root}) \cup {NONE} : SetEntryNode(h)
    \/ Tick(Env0)

SpecGraph == Init /\ [][NextGraph]_vars

\* A composite over leaves and over handles that name no node: null, and
\* an index past the end of any arena built here. The driver rewires the
\* entry node to any handle but the root's and ticks.
Unresolved == {NONE, Handle(MaxChildren + 2, 1)}

Picks ==
    {LeafPick(s) : s \in {Success, Failure}} \cup {HandlePick(h) : h \in Unresolved}

PickLists == UNION {[1..n -> Picks] : n \in 0..MaxChildren}

InitDangling ==
    \E k \in Kinds : \E picks \in PickLists :
        LET t == create_picked_tree(k, picks)
        IN /\ nodes = t.nodes
           /\ root = t.root
           /\ ctx = Env0
           /\ last = Op("set_entry_node", t.nodes[t.root.index + 1].payload.child,
                        "", NONE, None, Env0, <<>>)
           /\ issued = IssuedOf(t)
           /\ NoCalls

NextDangling ==
    \/ \E h \in HandleInputs \ {root} : SetEntryNode(h)
    \/ Tick(Env0)

SpecDangling == InitDangling /\ [][NextDangling]_vars

\* The driver of a CommandStack: an editor that does, undoes and redoes.
\* Every call gets a fresh context; journal lists the calls made, each with
\* the context as the call left it and the stack as the call left it.
Call(op, events, stack) ==
    [op |-> op, events |-> events, commands |-> stack.commands, top |-> stack.top]

\* The commands handed to do_command are distinct objects: the n-th is n.
FreshCommand == 1 + Cardinality({j \in DOMAIN journal : journal[j].op = "do_command"})

Made(op, r) ==
    /\ commands' = r.stack.commands
    /\ top' = r.stack.top
    /\ journal' = Append(journal, Call(op, r.ctx, r.stack))

DoCommand ==
    /\ Len(journal) < MaxCalls
    /\ \E r \in {do_command(Stack(commands, top), FreshCommand, <<>>)} :
          Made("do_command", r)
    /\ UNCHANGED tree_vars

Undo ==
    /\ Len(journal) < MaxCalls
    /\ \E r \in {undo(Stack(commands, top), <<>>)} : Made("undo", r)
    /\ UNCHANGED tree_vars

Redo ==
    /\ Len(journal) < MaxCalls
    /\ \E r \in {redo(Stack(commands, top), <<>>)} : Made("redo", r)
    /\ UNCHANGED tree_vars

NextCommand ==
    \/ DoCommand
    \/ Undo
    \/ Redo

SpecCommand == Init /\ [][NextCommand]_vars

\* ------------------------------------------------------------------ claims

\* The calls a finished call made directly: calls lists the calls in the
\* order they returned, so those of call j are the calls one level deeper
\* that returned after the last earlier call at j's level or above.
CallStart(calls, j) ==
    LET before == {i \in 1..(j - 1) : calls[i].depth <= calls[j].depth}
    IN IF before = {} THEN 1 ELSE 1 + CHOOSE i \in before : \A k \in before : k <= i

IsDirectChild(calls, j, c) == c.depth = calls[j].depth + 1

ChildCalls(calls, j) ==
    LET inner == SubSeq(calls, CallStart(calls, j), j - 1)
    IN SelectSeq(inner, LAMBDA c : IsDirectChild(calls, j, c))

NodeAt(h) == nodes[h.index + 1].payload

Entry == NodeAt(root).child

\* The statuses the children of the entry composite were built to return.
EntryStatuses ==
    [k \in 1..Len(NodeAt(Entry).children) |->
        NodeAt(NodeAt(Entry).children[k]).behavior.ret]

\* The first child whose status is in stops, or the last child if none is.
StopAt(st, stops) ==
    LET hit == {k \in 1..Len(st) : st[k] \in stops}
    IN IF hit = {} THEN Len(st) ELSE CHOOSE k \in hit : \A m \in hit : k <= m

\* The calls of a tick of the entry composite that evaluates its first n
\* children: the n leaves in order, then the composite, then the root.
FlatCalls(st, n, status) ==
    [k \in 1..n |-> [node |-> NodeAt(Entry).children[k], depth |-> 2, status |-> st[k]]]
    \o <<[node |-> Entry, depth |-> 1, status |-> status],
         [node |-> root, depth |-> 0, status |-> status]>>

TickedEntry(kind) ==
    /\ last.op = "tick"
    /\ is_some(Entry)
    /\ NodeAt(Entry).tag = "Composite"
    /\ NodeAt(Entry).kind = kind

\* C1: one tick of a Sequence evaluates its children in stored order up to
\* and including the first that returns Failure or Running, returns that
\* child's status (Success if all returned Success), and evaluates no later
\* child: the context records the invocations of the evaluated children only.
C1_SequenceShortCircuit ==
    TickedEntry("Sequence") =>
        LET st == EntryStatuses
            n == StopAt(st, {Failure, Running})
            status == IF n > 0 /\ st[n] # Success THEN st[n] ELSE Success
        IN /\ last.status = status
           /\ ctx.log = SubSeq(st, 1, n)
           /\ last.calls = FlatCalls(st, n, status)
           /\ ctx = [last.before EXCEPT !.log = SubSeq(st, 1, n)]

C1_Witness ==
    /\ TickedEntry("Sequence")
    /\ EntryStatuses = <<Success, Running, Success>>
    /\ last.status = Running
    /\ ctx.log = <<Success, Running>>

\* C2: one tick of a Selector evaluates its children in stored order up to
\* and including the first that returns Success or Running, returns that
\* child's status (Failure if all returned Failure), and evaluates no later
\* child.
C2_SelectorFirstWin ==
    TickedEntry("Selector") =>
        LET st == EntryStatuses
            n == StopAt(st, {Success, Running})
            status == IF n > 0 /\ st[n] # Failure THEN st[n] ELSE Failure
        IN /\ last.status = status
           /\ ctx.log = SubSeq(st, 1, n)
           /\ last.calls = FlatCalls(st, n, status)
           /\ ctx = [last.before EXCEPT !.log = SubSeq(st, 1, n)]

C2_Witness ==
    /\ TickedEntry("Selector")
    /\ EntryStatuses = <<Failure, Running, Success>>
    /\ last.status = Running
    /\ ctx.log = <<Failure, Running>>

Identity(kind) == IF kind = "Sequence" THEN Success ELSE Failure

IsEmptyComposite(h) ==
    /\ is_valid_handle(nodes, h)
    /\ NodeAt(h).tag = "Composite"
    /\ NodeAt(h).children = <<>>

\* C3: a Sequence with no children ticks to Success and a Selector with no
\* children to Failure, wherever it stands in the tree, without calling
\* anything; as the entry node it leaves the context as it was passed.
C3_VacuousIdentities ==
    last.op = "tick" =>
        /\ \A j \in 1..Len(last.calls) :
               IsEmptyComposite(last.calls[j].node) =>
                   /\ last.calls[j].status = Identity(NodeAt(last.calls[j].node).kind)
                   /\ ChildCalls(last.calls, j) = <<>>
        /\ (is_some(Entry) /\ IsEmptyComposite(Entry)) =>
               /\ last.status = Identity(NodeAt(Entry).kind)
               /\ ctx = last.before
               /\ last.calls =
                      <<[node |-> Entry, depth |-> 1, status |-> last.status],
                        [node |-> root, depth |-> 0, status |-> last.status]>>

C3_Witness ==
    /\ last.op = "tick"
    /\ is_some(Entry)
    /\ IsEmptyComposite(Entry)
    /\ NodeAt(Entry).kind = "Selector"
    /\ last.status = Failure
    /\ Len(nodes) > 2

\* C4: a tree whose Root child is null, whatever has been added to it,
\* ticks to Success, calls nothing but the Root and leaves the context as it
\* was passed.
C4_NullEntrySucceeds ==
    (last.op = "tick" /\ NodeAt(root).tag = "Root" /\ ~is_some(NodeAt(root).child)) =>
        /\ last.status = Success
        /\ last.calls = <<[node |-> root, depth |-> 0, status |-> Success]>>
        /\ ctx = last.before

C4_Witness ==
    /\ last.op = "tick"
    /\ ~is_some(NodeAt(root).child)
    /\ last.status = Success
    /\ \E i \in Slots : nodes[i].payload.tag = "Composite" /\ nodes[i].payload.children # <<>>

\* Every composite call of the tick began at the composite's first child and
\* went through the children in stored order.
RestartsAtFirstChild ==
    \A j \in 1..Len(last.calls) :
        (is_valid_handle(nodes, last.calls[j].node)
         /\ NodeAt(last.calls[j].node).tag = "Composite") =>
            LET cc == ChildCalls(last.calls, j)
                ch == NodeAt(last.calls[j].node).children
            IN /\ Len(cc) <= Len(ch)
               /\ \A k \in 1..Len(cc) : cc[k].node = ch[k]
               /\ (ch # <<>> => cc # <<>>)

Topology ==
    [root |-> root,
     slots |-> [i \in Slots |->
                   [generation |-> nodes[i].generation,
                    tag |-> nodes[i].payload.tag,
                    child |-> nodes[i].payload.child,
                    kind |-> nodes[i].payload.kind,
                    children |-> nodes[i].payload.children]]]

\* C6: a tick leaves the topology as it was: the slots and their handles,
\* the root handle, the Root's child, every composite's kind and child list.
C6_TickKeepsTopology ==
    [][last'.op = "tick" => Topology' = Topology]_vars

C6_Witness ==
    /\ last.op = "tick"
    /\ is_some(Entry)
    /\ NodeAt(Entry).tag = "Composite"
    /\ Len(NodeAt(Entry).children) = 2
    /\ ctx # last.before
    /\ last.status = Success

\* C7: in the door scenario the driver that ticks while done is false
\* reaches done and stops there; every tick before the last returns Running
\* and the last returns Success.
C7_DoorScenarioTerminates ==
    /\ <>[](ctx.done /\ last.op = "tick" /\ last.status = Success)
    /\ [](last.op = "tick" => last.status = (IF ctx.done THEN Success ELSE Running))
    /\ [](ctx.done => ~ENABLED DriverTick)

\* The end of the run that starts 3.0 away: 42 steps of 0.1f32 leave the bot
\* at -1.0999994 (as a multiple of 2^-27).
C7_Witness ==
    /\ ctx.done
    /\ ~ctx.door_opened
    /\ last.op = "tick"
    /\ last.status = Success
    /\ ctx.distance_to_door = -147639424

\* C8: every handle add_node has returned differs from the root handle and
\* from every other returned handle, and node(h) returns the node stored
\* under h, whatever was added, wired or ticked since.
C8_HandlesStayValid ==
    \A i \in DOMAIN issued :
        /\ issued[i].handle # root
        /\ \A j \in DOMAIN issued : issued[j].handle = issued[i].handle => j = i
        /\ node(Tree(nodes, root), issued[i].handle) = Some(issued[i].node)

C8_Witness ==
    /\ Len(issued) >= 3
    /\ last.op = "tick"
    /\ last.status = Success
    /\ NodeAt(root).child = issued[2].handle
    /\ issued[1].node # issued[2].node
    /\ node(Tree(nodes, root), issued[1].handle) = Some(issued[1].node)

\* A handle that is null, past the end of the arena, or whose version tag is
\* not the slot's.
IsAbsent(h) ==
    \/ h = NONE
    \/ h.index >= Len(nodes)
    \/ nodes[h.index + 1].generation # h.generation

\* C9: node and node_mut called with a null, out-of-range or stale handle
\* return the absent result, do not panic and leave the tree as it was.
C9_AbsentHandles ==
    [][(last'.op \in {"node", "node_mut", "node_mut_assign"} /\ IsAbsent(last'.arg)) =>
          /\ last'.found = None
          /\ last'.status # Panic
          /\ nodes' = nodes
          /\ root' = root]_vars

C9_Witness ==
    /\ last.op = "node_mut"
    /\ last.arg = Handle(0, 2)
    /\ is_valid_handle(nodes, Handle(0, 1))
    /\ last.found = None
    /\ Len(nodes) > 2

\* C10: the slot the root handle names holds a Root, and no other slot does.
C10_ExactlyOneRoot ==
    /\ NodeAt(root).tag = "Root"
    /\ \A i \in Slots : nodes[i].payload.tag = "Root" => HandleOf(i) = root

\* The calls of the last tick that were made on an Unknown node.
UnknownCalls ==
    {j \in 1..Len(last.calls) :
        /\ is_valid_handle(nodes, last.calls[j].node)
        /\ NodeAt(last.calls[j].node).tag = "Unknown"}

\* C11: a tick whose evaluation reaches an Unknown node returns no Status:
\* the call on the Unknown node and the tick itself end in a panic. A
\* set_entry_node on a tree whose root slot does not hold a Root panics and
\* leaves every node and the root handle as they were.
C11_InvariantViolationsAbort ==
    /\ [](last.op = "tick" =>
             /\ \A j \in UnknownCalls : last.calls[j].status = Panic
             /\ (UnknownCalls # {} => last.status = Panic /\ last.status \notin Status))
    /\ [][(last'.op = "set_entry_node" /\ NodeAt(root).tag # "Root") =>
             /\ last'.status = Panic
             /\ nodes' = nodes
             /\ root' = root]_vars

C11_Witness ==
    /\ last.op = "tick"
    /\ last.status = Panic
    /\ NodeAt(root).tag = "Root"
    /\ is_valid_handle(nodes, Entry)
    /\ NodeAt(Entry).tag = "Unknown"
    /\ \E j \in UnknownCalls : last.calls[j].node = Entry /\ last.calls[j].depth = 1

RangeOf(seq) == {seq[i] : i \in DOMAIN seq}

\* How often a method was called on a command within one call's context.
Count(kind, command, events) ==
    Cardinality({e \in DOMAIN events : events[e] = Event(kind, command)})

\* The first of the undo calls made right before call j (j if there is none).
UndoBlockStart(j) ==
    LET others == {i \in 1..(j - 1) : journal[i].op # "undo"}
    IN IF others = {} THEN 1 ELSE 1 + CHOOSE i \in others : \A m \in others : m <= i

\* The commands the calls i..j-1 reverted.
RevertedIn(i, j) ==
    UNION {{ev.command : ev \in {x \in RangeOf(journal[m].events) : x.event = "revert"}} :
              m \in i..(j - 1)}

\* The history as it was before call j.
HistoryBefore(j) == IF j = 1 THEN CommandStack_new.commands ELSE journal[j - 1].commands

\* C13: a do_command that follows undo calls made since the previous
\* do_command, with no redo among them, k >= 1 of which reverted a command:
\* exactly the k reverted commands leave the history, finalize is called once
\* on each of them and on nothing else, the new command is executed once and
\* is the last entry of the history, and top is its index.
C13_BranchTruncation ==
    \A j \in DOMAIN journal :
        LET i == UndoBlockStart(j)
            undone == RevertedIn(i, j)
            k == Cardinality(undone)
            before == HistoryBefore(i)
            after == journal[j].commands
            command == after[Len(after)]
            events == journal[j].events
        IN (/\ journal[j].op = "do_command"
            /\ i < j
            /\ (i = 1 \/ journal[i - 1].op = "do_command")
            /\ k >= 1) =>
               /\ k = Cardinality({m \in i..(j - 1) : journal[m].events # <<>>})
               /\ RangeOf(before) \ RangeOf(after) = undone
               /\ command \notin RangeOf(before)
               /\ after = Append(SubSeq(before, 1, Len(before) - k), command)
               /\ Len(events) = k + 1
               /\ \A u \in undone : Count("finalize", u, events) = 1
               /\ events[k + 1] = Event("execute", command)
               /\ journal[j].top = SomeTop(Len(after) - 1)

C13_Witness ==
    /\ [j \in DOMAIN journal |-> journal[j].op] =
           <<"do_command", "do_command", "do_command", "undo", "undo", "do_command">>
    /\ journal[6].events = <<Event("finalize", 2), Event("finalize", 3), Event("execute", 4)>>
    /\ commands = <<1, 4>>
    /\ top = SomeTop(1)

\* The last tick called the leaf of that behavior and it returned status.
LeafCalled(name, status) ==
    \E j \in 1..Len(last.calls) :
        /\ NodeAt(last.calls[j].node).tag = "Leaf"
        /\ NodeAt(last.calls[j].node).behavior.name = name
        /\ last.calls[j].status = status

\* C14: in the door scenario, after every tick of the driver loop: the door
\* is closed while the bot is in front of it (distance > 0); a tick in which
\* StepThrough moved the bot leaves the door open, and every tick that
\* shortens the distance is one in which Walk or StepThrough moved the bot by
\* one step; done is false unless the distance is below -1.0; and the tick
\* that sets done leaves the door closed.
C14_DoorOrdering ==
    /\ [](ctx.distance_to_door > 0 => ~ctx.door_opened)
    /\ [](ctx.done => ctx.distance_to_door < 0 - One)
    /\ [][/\ LeafCalled("StepThrough", Running)' =>
                /\ ctx'.door_opened
                /\ ctx.distance_to_door <= 0
                /\ ctx'.distance_to_door = SubF32(ctx.distance_to_door, Tenth)
          /\ ctx'.distance_to_door # ctx.distance_to_door =>
                /\ ctx'.distance_to_door < ctx.distance_to_door
                /\ LeafCalled("Walk", Running)' # LeafCalled("StepThrough", Running)'
                /\ LeafCalled("Walk", Running)' => ctx.distance_to_door > 0
          /\ (~ctx.done /\ ctx'.done) =>
                /\ ~ctx'.door_opened
                /\ ctx.door_opened
                /\ LeafCalled("CloseDoor", Success)']_vars

C14_Witness ==
    /\ ~ctx.done
    /\ ctx.door_opened
    /\ last.before.door_opened
    /\ LeafCalled("StepThrough", Running)
    /\ ctx.distance_to_door < 0 - One
    /\ last.before.distance_to_door >= 0 - One

\* The handles a node holds: a composite's child list, the Root's child.
ChildrenOf(h) ==
    IF ~is_valid_handle(nodes, h) THEN {}
    ELSE IF NodeAt(h).tag = "Composite" THEN RangeOf(NodeAt(h).children)
    ELSE IF NodeAt(h).tag = "Root" /\ is_some(NodeAt(h).child) THEN {NodeAt(h).child}
    ELSE {}

\* The handles reached from those of S in at most n further steps.
RECURSIVE Descendants(_, _)
Descendants(S, n) ==
    IF n = 0 THEN S
    ELSE Descendants(S \cup UNION {ChildrenOf(h) : h \in S}, n - 1)

\* No node is its own descendant.
Acyclic == \A h \in Handles : h \notin Descendants(ChildrenOf(h), Len(nodes))

\* Every handle in a child list is non-null and names a Composite or a Leaf
\* of the arena, and so does the Root's child unless it is null.
ChildrenResolve ==
    /\ NodeAt(root).tag = "Root"
    /\ \A h \in Handles : \A c \in ChildrenOf(h) :
           /\ is_some(c)
           /\ is_valid_handle(nodes, c)
           /\ NodeAt(c).tag \in {"Composite", "Leaf"}

C16_SetEntryNodeFrame ==
    [][/\ (last'.op = "set_entry_node" /\ NodeAt(root).tag = "Root") =>
             /\ last'.status # Panic
             /\ nodes' = [nodes EXCEPT ![root.index + 1].payload.child = last'.arg]
             /\ root' = root
             /\ ctx' = ctx
             /\ issued' = issued
       /\ (last'.op = "tick" /\ is_some(Entry)) =>
             LET calls == last'.calls
                 n == Len(calls)
             IN /\ n >= 2
                /\ calls[n].node = root
                /\ ChildCalls(calls, n) = <<calls[n - 1]>>
                /\ calls[n - 1].node = Entry
                /\ last'.status = calls[n - 1].status]_vars

C16_Witness ==
    /\ last.op = "tick"
    /\ Len(issued) = 2
    /\ Entry = issued[1].handle
    /\ IsChild(issued[2].handle)
    /\ NodeAt(issued[2].handle).tag = "Composite"
    /\ Len(last.calls) = 2
    /\ last.calls[1] = [node |-> Entry, depth |-> 1, status |-> Success]
    /\ last.status = Success

\* How often a method has been called on a command over all calls made.
Times(kind, command) ==
    Cardinality(UNION {{<<j, e>> : e \in {x \in DOMAIN journal[j].events :
                                             journal[j].events[x] = Event(kind, command)}} :
                          j \in DOMAIN journal})

\* Executed once more than reverted: 1; executed and reverted equally
\* often: 0.
Applied(command) == Times("execute", command) - Times("revert", command)

\* C17: top is None or an index of the history; every command at an index
\* up to top is applied and every command above top (every command when top
\* is None) is not.
C17_CursorInvariant ==
    /\ top.some => top.value < Len(commands)
    /\ \A i \in 1..Len(commands) :
           Applied(commands[i]) = (IF top.some /\ i - 1 <= top.value THEN 1 ELSE 0)

\* The calls before call j were all do_command calls.
OnlyDone(j) == \A m \in 1..(j - 1) : journal[m].op = "do_command"

\* C18: after do_command calls only, an undo that reverts command c followed
\* at once by a redo: the redo executes c and nothing else and leaves the
\* history and the cursor as they were before the undo. A redo after
\* do_command calls only, nothing undone, executes nothing.
C18_UndoRedoRoundTrip ==
    \A j \in DOMAIN journal :
        /\ (/\ journal[j].op = "redo"
            /\ j >= 3
            /\ journal[j - 1].op = "undo"
            /\ journal[j - 1].events # <<>>
            /\ OnlyDone(j - 1)) =>
               /\ journal[j].events =
                      <<Event("execute", journal[j - 1].events[1].command)>>
               /\ journal[j].commands = journal[j - 2].commands
               /\ journal[j].top = journal[j - 2].top
        /\ (journal[j].op = "redo" /\ OnlyDone(j)) =>
               /\ journal[j].events = <<>>
               /\ journal[j].top = (IF j = 1 THEN NoTop ELSE journal[j - 1].top)

\* C19: n do_command calls on a new stack followed by undo calls only: the
\* i-th undo, i <= n, reverts the command executed (n - i + 1)-th and
\* nothing else; the history holds the n commands throughout; after n undos
\* top is None; every further undo, and every undo on an empty stack, calls
\* nothing and leaves the stack as it was.
C19_UndoOrder ==
    LET n == Cardinality({j \in DOMAIN journal : journal[j].op = "do_command"})
    IN (\A j \in DOMAIN journal : journal[j].op = (IF j <= n THEN "do_command" ELSE "undo")) =>
           /\ commands = [i \in 1..n |-> i]
           /\ \A j \in (n + 1)..Len(journal) :
                  /\ journal[j].commands = commands
                  /\ journal[j].events =
                         (IF j - n <= n THEN <<Event("revert", n - (j - n) + 1)>> ELSE <<>>)
                  /\ journal[j].top =
                         (IF j - n < n THEN SomeTop(n - (j - n) - 1) ELSE NoTop)
           /\ Len(journal) >= 2 * n => top = NoTop
           /\ \A c \in 1..n : Times("revert", c) <= 1

C19_Witness ==
    /\ [j \in DOMAIN journal |-> journal[j].op] =
           <<"do_command", "do_command", "undo", "undo", "undo">>
    /\ [j \in 3..5 |-> journal[j].events] =
           [j \in 3..5 |-> IF j = 3 THEN <<Event("revert", 2)>>
                           ELSE IF j = 4 THEN <<Event("revert", 1)>> ELSE <<>>]
    /\ commands = <<1, 2>>
    /\ top = NoTop

\* What ticking a child of the entry composite comes to: the status its
\* leaf was built with, or no status when the handle names no node.
EntryOutcomes ==
    [k \in 1..Len(NodeAt(Entry).children) |->
        IF is_valid_handle(nodes, NodeAt(Entry).children[k])
        THEN NodeAt(NodeAt(Entry).children[k]).behavior.ret
        ELSE Panic]

\* C20: a tick aborts at the first handle it reaches that names no node. A
\* call on a null, out-of-range or stale handle returns no Status and every
\* call around it, the tick included, ends with it; a non-null entry handle
\* that names no node aborts the tick before anything is evaluated; a
\* composite aborts at an unresolved child if and only if its evaluation
\* order gets to it, after the leaves before it and before any after it,
\* and never passes over it. Only a null Root child is "no child".
C20_UnresolvedHandlesAbort ==
    last.op = "tick" =>
        /\ \A j \in 1..Len(last.calls) :
               ~is_valid_handle(nodes, last.calls[j].node) =>
                   /\ last.calls[j].status = Panic
                   /\ last.status = Panic
                   /\ \A m \in (j + 1)..Len(last.calls) :
                          /\ last.calls[m].status = Panic
                          /\ last.calls[m].depth < last.calls[m - 1].depth
        /\ (is_some(Entry) /\ ~is_valid_handle(nodes, Entry)) =>
               /\ last.status = Panic
               /\ last.calls = <<[node |-> Entry, depth |-> 1, status |-> Panic],
                                 [node |-> root, depth |-> 0, status |-> Panic]>>
               /\ ctx = last.before
        /\ (is_valid_handle(nodes, Entry) /\ NodeAt(Entry).tag = "Composite") =>
               LET out == EntryOutcomes
                   stops == IF NodeAt(Entry).kind = "Sequence"
                            THEN {Failure, Running, Panic}
                            ELSE {Success, Running, Panic}
                   n == StopAt(out, stops)
                   status == IF n > 0 /\ out[n] \in stops
                             THEN out[n] ELSE Identity(NodeAt(Entry).kind)
               IN /\ last.status = status
                  /\ last.calls = FlatCalls(out, n, status)
                  /\ ctx.log = SelectSeq(SubSeq(out, 1, n), LAMBDA s : s # Panic)
        /\ ~is_some(Entry) => last.status = Success

C20_Witness ==
    /\ last.op = "tick"
    /\ is_valid_handle(nodes, Entry)
    /\ NodeAt(Entry).tag = "Composite"
    /\ NodeAt(Entry).kind = "Sequence"
    /\ EntryOutcomes = <<Success, Panic, Success>>
    /\ NodeAt(Entry).children[2] = NONE
    /\ last.status = Panic
    /\ ctx.log = <<Success>>

====
